---- MODULE Spec2Model ----
(***************************************************************************)
(* Model of the background-removal service: the backend classes            *)
(* (app/models), the model registry (app/services/bg_removal.py), the      *)
(* startup warmup task and lifespan (app/main.py) and the                  *)
(* /remove-background request handler (app/api.py).                        *)
(*                                                                         *)
(* Everything in the service runs on one asyncio event loop: a coroutine   *)
(* is only interleaved with another at an await, so each action below is   *)
(* the code between two awaits.                                            *)
(***************************************************************************)
EXTENDS Integers, Sequences, FiniteSets, TLC

(***************************************************************************)
(* Bounds of the model.                                                    *)
(***************************************************************************)
NumHandlers == 2
MaxRequests == 2
MaxCalls == 3
MaxFaults == 1

(***************************************************************************)
(* Program constants.                                                      *)
(***************************************************************************)
SETTLE_DELAY == 5
INTER_MODEL_DELAY == 5
INIT_ALL_DELAY == 3

Handlers == 1..NumHandlers
\* Caller identities: the warmup task, the request handlers, a direct caller.
WarmupTask == 0
DirectCaller == NumHandlers + 1

Classes == {"RembgRemover", "WithoutBgRemover"}
\* A class a caller may hand to register() after import whose name property
\* is that of a registered model.
DuplicateClass == "OtherRembgRemover"
\* The "model" form values a client may send: the two names and a foreign one.
ModelArgs == {"rembg", "withoutbg", "other"}
\* Modes of a PIL image: of the decoded upload and of a library's result.
ImageModes == {"RGB", "RGBA", "L"}

(***************************************************************************)
(* The backends: app/models/rembg_model.py, app/models/withoutbg_model.py.  *)
(* An object is [cls, session]; session models RembgRemover._session and    *)
(* WithoutBgRemover._model: "None" until initialize has assigned it.        *)
(***************************************************************************)
ClassName(cls) ==
    IF cls \in {"RembgRemover", "OtherRembgRemover"} THEN "rembg" ELSE "withoutbg"

NewInstance(cls) == [cls |-> cls, session |-> "None"]

\* A failing initialize that has already assigned a half-built session.
initialize_partial(obj, ok) ==
    IF ok THEN [obj |-> [obj EXCEPT !.session = "loaded"], raised |-> FALSE]
          ELSE [obj |-> [obj EXCEPT !.session = "broken"], raised |-> TRUE]

\* initialize(): new_session / WithoutBG.opensource() either returns, and the
\* field is assigned, or raises, and the assignment never happens; the
\* exception is re-raised as RuntimeError.
initialize(obj, ok) ==
    IF ok THEN [obj |-> [obj EXCEPT !.session = "loaded"], raised |-> FALSE]
          ELSE [obj |-> obj, raised |-> TRUE]

\* No conversion of the library's result.
EnsureRGBA_keeps_mode(mode) == mode

\* result.convert("RGBA") when result.mode != "RGBA".
EnsureRGBA(mode) == IF mode # "RGBA" THEN "RGBA" ELSE mode

\* remove_background whose except clause drops the session.
remove_background_drops_session(obj, initOk, inferOk, libMode) ==
    LET needInit == obj.session = "None"
        i == IF needInit THEN initialize(obj, initOk)
                         ELSE [obj |-> obj, raised |-> FALSE]
    IN  IF i.raised
        THEN [obj |-> i.obj, err |-> "init", initRan |-> TRUE,
              inferRan |-> FALSE, mode |-> ""]
        ELSE IF inferOk /\ i.obj.session = "loaded"
        THEN [obj |-> i.obj, err |-> "", initRan |-> needInit,
              inferRan |-> TRUE, mode |-> EnsureRGBA(libMode)]
        ELSE [obj |-> [i.obj EXCEPT !.session = "None"], err |-> "infer",
              initRan |-> needInit, inferRan |-> TRUE, mode |-> ""]

\* remove_background without its lazy "if self._session is None" branch.
remove_background_no_lazy_init(obj, initOk, inferOk, libMode) ==
    IF inferOk
    THEN [obj |-> obj, err |-> "", initRan |-> FALSE,
          inferRan |-> TRUE, mode |-> EnsureRGBA(libMode)]
    ELSE [obj |-> obj, err |-> "infer", initRan |-> FALSE,
          inferRan |-> TRUE, mode |-> ""]

\* remove_background(image): lazy initialize outside the try, then inference
\* and the RGBA conversion inside it. The library call succeeds only on a
\* loaded session.
remove_background(obj, initOk, inferOk, libMode) ==
    LET needInit == obj.session = "None"
        i == IF needInit THEN initialize(obj, initOk)
                         ELSE [obj |-> obj, raised |-> FALSE]
    IN  IF i.raised
        THEN [obj |-> i.obj, err |-> "init", initRan |-> TRUE,
              inferRan |-> FALSE, mode |-> ""]
        ELSE IF inferOk /\ i.obj.session = "loaded"
        THEN [obj |-> i.obj, err |-> "", initRan |-> needInit,
              inferRan |-> TRUE, mode |-> EnsureRGBA(libMode)]
        ELSE [obj |-> i.obj, err |-> "infer", initRan |-> needInit,
              inferRan |-> TRUE, mode |-> ""]

(***************************************************************************)
(* The registry: app/services/bg_removal.py.                               *)
(* classes is the insertion-ordered dict _model_classes as a sequence of   *)
(* [name, cls]; instances is _model_instances, a function from the names   *)
(* present to object ids; heap[id] is the object.                          *)
(***************************************************************************)
Keys(classes) == [i \in 1..Len(classes) |-> classes[i].name]

HasKey(classes, name) == \E i \in 1..Len(classes) : classes[i].name = name

ClassOf(classes, name) ==
    classes[CHOOSE i \in 1..Len(classes) : classes[i].name = name].cls

\* ", ".join(names): the names with a separator between neighbours.
RECURSIVE Join(_)
Join(names) ==
    IF Len(names) = 0 THEN <<>>
    ELSE IF Len(names) = 1 THEN <<names[1]>>
    ELSE <<names[1], ", ">> \o Join(Tail(names))

\* register that puts a new key in front of the existing ones.
register_at_front(classes, cls) ==
    LET name == ClassName(cls)
    IN  IF HasKey(classes, name)
        THEN [i \in 1..Len(classes) |->
                 IF classes[i].name = name
                 THEN [name |-> name, cls |-> cls] ELSE classes[i]]
        ELSE <<[name |-> name, cls |-> cls]>> \o classes

\* register that leaves the binding of an existing key as it is.
register_keeps_first(classes, cls) ==
    LET name == ClassName(cls)
    IN  IF HasKey(classes, name) THEN classes
        ELSE Append(classes, [name |-> name, cls |-> cls])

\* register(model_class): a dict assignment; an existing key keeps its place.
register(classes, cls) ==
    LET name == ClassName(cls)
    IN  IF HasKey(classes, name)
        THEN [i \in 1..Len(classes) |->
                 IF classes[i].name = name
                 THEN [name |-> name, cls |-> cls] ELSE classes[i]]
        ELSE Append(classes, [name |-> name, cls |-> cls])

\* list_models()
list_models(classes) == Keys(classes)

\* A del that empties the mapping.
Without_clears(instances, name) == [k \in {} |-> 0]

\* del self._model_instances[name]
Without(instances, name) ==
    [k \in DOMAIN instances \ {name} |-> instances[k]]

\* get without the "name not in self._model_instances" test.
get_always_constructs(reg, name, ctorOk) ==
    IF ~HasKey(reg.classes, name)
    THEN [reg |-> reg, ret |-> 0, err |-> "ValueError",
          msg |-> Join(Keys(reg.classes)), ctor |-> 0]
    ELSE IF ctorOk
         THEN LET id == Len(reg.heap) + 1
              IN [reg |-> [reg EXCEPT
                       !.heap = Append(@, NewInstance(ClassOf(reg.classes, name))),
                       !.instances = (name :> id) @@ Without(@, name)],
                  ret |-> id, err |-> "", msg |-> <<>>, ctor |-> 1]
         ELSE [reg |-> reg, ret |-> 0, err |-> "ctor", msg |-> <<>>, ctor |-> 1]

\* get whose store replaces the whole instance mapping by the new entry.
get_evicts_others(reg, name, ctorOk) ==
    IF ~HasKey(reg.classes, name)
    THEN [reg |-> reg, ret |-> 0, err |-> "ValueError",
          msg |-> Join(Keys(reg.classes)), ctor |-> 0]
    ELSE IF name \notin DOMAIN reg.instances
    THEN IF ctorOk
         THEN LET id == Len(reg.heap) + 1
              IN [reg |-> [reg EXCEPT
                       !.heap = Append(@, NewInstance(ClassOf(reg.classes, name))),
                       !.instances = (name :> id)],
                  ret |-> id, err |-> "", msg |-> <<>>, ctor |-> 1]
         ELSE [reg |-> reg, ret |-> 0, err |-> "ctor", msg |-> <<>>, ctor |-> 1]
    ELSE [reg |-> reg, ret |-> reg.instances[name], err |-> "",
          msg |-> <<>>, ctor |-> 0]

\* get that constructs and stores an instance before it looks the name up.
get_constructs_unknown(reg, name, ctorOk) ==
    LET id == Len(reg.heap) + 1
        made == [reg EXCEPT !.heap = Append(@, NewInstance("RembgRemover")),
                            !.instances = (name :> id) @@ Without(@, name)]
    IN  IF ~HasKey(reg.classes, name)
        THEN [reg |-> made, ret |-> 0, err |-> "ValueError",
              msg |-> Join(Keys(reg.classes)), ctor |-> 1]
        ELSE [reg |-> made, ret |-> id, err |-> "", msg |-> <<>>, ctor |-> 1]

\* get(name) on reg = [classes, instances, heap]. ctorOk is whether the
\* constructor call returns. The result holds the registry afterwards, the
\* returned id (0 when it raised), the error, the names the error message
\* lists and the number of constructor calls made.
get(reg, name, ctorOk) ==
    IF ~HasKey(reg.classes, name)
    THEN [reg |-> reg, ret |-> 0, err |-> "ValueError",
          msg |-> Join(Keys(reg.classes)), ctor |-> 0]
    ELSE IF name \notin DOMAIN reg.instances
    THEN IF ctorOk
         THEN LET id == Len(reg.heap) + 1
              IN [reg |-> [reg EXCEPT
                       !.heap = Append(@, NewInstance(ClassOf(reg.classes, name))),
                       !.instances = (name :> id) @@ @],
                  ret |-> id, err |-> "", msg |-> <<>>, ctor |-> 1]
         ELSE [reg |-> reg, ret |-> 0, err |-> "ctor", msg |-> <<>>, ctor |-> 1]
    ELSE [reg |-> reg, ret |-> reg.instances[name], err |-> "",
          msg |-> <<>>, ctor |-> 0]


\* One pass of the loop of initialize_all that leaves a failed instance in
\* the instance mapping.
init_one_no_evict(st, idx, initOk, ctorFail) ==
    LET classes == st.reg.classes
        name == classes[idx].name
        absent == name \notin DOMAIN st.reg.instances
        made == IF absent
                THEN [st.reg EXCEPT
                        !.heap = Append(@, NewInstance(classes[idx].cls)),
                        !.instances = (name :> (Len(st.reg.heap) + 1)) @@ @]
                ELSE st.reg
        id == made.instances[name]
        i == initialize(made.heap[id], initOk[name])
        after == [made EXCEPT !.heap[id] = i.obj]
    IN  [st EXCEPT !.reg = after,
                   !.ctor = @ + (IF absent THEN 1 ELSE 0),
                   !.events = @ \o <<<<"initialize", name>>>>,
                   !.ok = IF i.raised THEN @ ELSE @ \cup {name},
                   !.failed = IF i.raised THEN @ \cup {name} ELSE @]

\* One pass of the loop of initialize_all, for the idx-th registered model.
\* st = [reg, events, ctor, ok, failed]; initOk[name] is whether initialize
\* returns for that model, ctorFail the name whose constructor raises (or
\* "none"). try: construct when absent, initialize, gc.collect(), and
\* time.sleep(3) unless it is the last model; except: delete the instance
\* when present, continue.
init_one(st, idx, initOk, ctorFail) ==
    LET classes == st.reg.classes
        name == classes[idx].name
        absent == name \notin DOMAIN st.reg.instances
    IN  IF absent /\ ctorFail = name
        THEN [st EXCEPT !.ctor = @ + 1,
                        !.events = @ \o <<<<"construct", name>>>>,
                        !.failed = @ \cup {name}]
        ELSE
        LET made == IF absent
                    THEN [st.reg EXCEPT
                            !.heap = Append(@, NewInstance(classes[idx].cls)),
                            !.instances = (name :> (Len(st.reg.heap) + 1)) @@ @]
                    ELSE st.reg
            id == made.instances[name]
            i == initialize(made.heap[id], initOk[name])
            after == [made EXCEPT !.heap[id] = i.obj]
            ev == st.events
                    \o (IF absent THEN <<<<"construct", name>>>> ELSE <<>>)
                    \o <<<<"initialize", name>>>>
        IN  IF i.raised
            THEN [st EXCEPT !.reg = [after EXCEPT !.instances = Without(@, name)],
                            !.ctor = @ + (IF absent THEN 1 ELSE 0),
                            !.events = ev,
                            !.failed = @ \cup {name}]
            ELSE [st EXCEPT !.reg = after,
                            !.ctor = @ + (IF absent THEN 1 ELSE 0),
                            !.events = ev \o <<<<"gc", name>>>>
                                \o (IF idx < Len(classes)
                                    THEN <<<<"sleep", name>>>> ELSE <<>>),
                            !.ok = @ \cup {name}]

\* A loop that ends at the first model that fails.
RECURSIVE InitLoop_stops_at_failure(_, _, _, _)
InitLoop_stops_at_failure(st, idx, initOk, ctorFail) ==
    IF idx > Len(st.reg.classes) \/ st.failed # {} THEN st
    ELSE InitLoop_stops_at_failure(init_one(st, idx, initOk, ctorFail),
                                   idx + 1, initOk, ctorFail)

\* for idx, (name, model_class) in enumerate(self._model_classes.items())
RECURSIVE InitLoop(_, _, _, _)
InitLoop(st, idx, initOk, ctorFail) ==
    IF idx > Len(st.reg.classes) THEN st
    ELSE InitLoop(init_one(st, idx, initOk, ctorFail), idx + 1, initOk, ctorFail)

\* initialize_all that logs the number of registered classes.
initialize_all_counts_classes(reg, initOk, ctorFail) ==
    LET st == InitLoop([reg |-> reg, events |-> <<>>, ctor |-> 0,
                        ok |-> {}, failed |-> {}], 1, initOk, ctorFail)
    IN  [reg |-> st.reg, events |-> st.events, ctor |-> st.ctor,
         ok |-> st.ok, failed |-> st.failed,
         count |-> Len(st.reg.classes)]

\* initialize_all(): the loop over _model_classes.items() in dict order, then
\* the count it logs, len(self._model_instances).
initialize_all(reg, initOk, ctorFail) ==
    LET st == InitLoop([reg |-> reg, events |-> <<>>, ctor |-> 0,
                        ok |-> {}, failed |-> {}], 1, initOk, ctorFail)
    IN  [reg |-> st.reg, events |-> st.events, ctor |-> st.ctor,
         ok |-> st.ok, failed |-> st.failed,
         count |-> Cardinality(DOMAIN st.reg.instances)]

\* A processing call that deletes the instance when its lazy initialize
\* raises.
process_evicts_on_init_failure(reg, name, ctorOk, initOk, inferOk, libMode) ==
    LET g == get(reg, name, ctorOk)
    IN  IF g.err # ""
        THEN [reg |-> g.reg, ret |-> 0, err |-> g.err, msg |-> g.msg,
              ctor |-> g.ctor, initRan |-> FALSE, inferRan |-> FALSE,
              wasLoaded |-> FALSE, mode |-> ""]
        ELSE LET obj == g.reg.heap[g.ret]
                 rb == remove_background(obj, initOk, inferOk, libMode)
             IN [reg |-> [g.reg EXCEPT !.heap[g.ret] = rb.obj,
                                       !.instances = IF rb.err = "init"
                                                     THEN Without(@, name) ELSE @],
                 ret |-> g.ret, err |-> rb.err, msg |-> <<>>, ctor |-> g.ctor,
                 initRan |-> rb.initRan, inferRan |-> rb.inferRan,
                 wasLoaded |-> obj.session = "loaded", mode |-> rb.mode]

\* The two lines every processing caller runs (api.py): remover =
\* get_model(model); result = remover.remove_background(input_image).
process(reg, name, ctorOk, initOk, inferOk, libMode) ==
    LET g == get(reg, name, ctorOk)
    IN  IF g.err # ""
        THEN [reg |-> g.reg, ret |-> 0, err |-> g.err, msg |-> g.msg,
              ctor |-> g.ctor, initRan |-> FALSE, inferRan |-> FALSE,
              wasLoaded |-> FALSE, mode |-> ""]
        ELSE LET obj == g.reg.heap[g.ret]
                 rb == remove_background(obj, initOk, inferOk, libMode)
             IN [reg |-> [g.reg EXCEPT !.heap[g.ret] = rb.obj],
                 ret |-> g.ret, err |-> rb.err, msg |-> <<>>, ctor |-> g.ctor,
                 initRan |-> rb.initRan, inferRan |-> rb.inferRan,
                 wasLoaded |-> obj.session = "loaded", mode |-> rb.mode]

(***************************************************************************)
(* State.                                                                  *)
(***************************************************************************)
VARIABLES
    model_classes,    \* ModelRegistry._model_classes
    model_instances,  \* ModelRegistry._model_instances
    heap,             \* the backend objects ever stored, by id
    lifespan,         \* "startup" until lifespan() yields, then "serving"
    tasks,            \* number of warmup tasks created
    wpc,              \* where background_model_initialization stands
    wake,             \* the time its current sleep ends
    wbegan,           \* the time it began its settling sleep
    wlog,             \* the names it has called get_model for, in order
    werr,             \* whether its except clause ran
    now,              \* the clock the warmup task's sleeps read, in seconds
    hpc,              \* per request handler: "idle" or "reading"
    hmodel,           \* per request handler: the model form value
    nops,             \* requests and direct calls started so far
    faults,           \* constructor failures the environment may still cause
    mode,             \* a warmup mode found in the environment
    last,             \* the last completed operation and what it observed
    getCtor,          \* per name: constructor calls made by get
    firstGet,         \* per name: the id the first successful get returned
    racers,           \* per name: callers in flight when it was constructed
    initFailed,       \* names for which some initialize has raised
    inferFailed       \* names for which some inference has raised

regvars == <<model_classes, model_instances, heap>>
appvars == <<lifespan, tasks, wpc, wake, wbegan, wlog, werr, now, hpc, hmodel>>
histvars == <<getCtor, firstGet, racers, initFailed, inferFailed>>
vars == <<regvars, appvars, histvars, nops, faults, mode, last>>

Reg == [classes |-> model_classes, instances |-> model_instances, heap |-> heap]

RegisteredNames == {ClassName(c) : c \in Classes}

NoOp == [op |-> "none", by |-> DirectCaller, name |-> "", ret |-> 0,
         err |-> "", msg |-> <<>>, ctor |-> 0, initRan |-> FALSE,
         inferRan |-> FALSE, wasLoaded |-> FALSE, status |-> 0, stage |-> "",
         mode |-> "", events |-> <<>>, ok |-> {}, failed |-> {},
         count |-> 0, initOk |-> <<>>, ctorFail |-> "none", libMode |-> "",
         cls |-> "", defects |-> {}]

\* The recognised values of the warmup mode.
WarmupModes == {"all", "none", "rembg", "withoutbg"}

\* Module import: _registry = ModelRegistry(), then the two register calls.
RegistryAtImport == register(register(<<>>, "RembgRemover"), "WithoutBgRemover")

InitCommon ==
    /\ model_classes = RegistryAtImport
    /\ model_instances = <<>>
    /\ heap = <<>>
    /\ lifespan = "startup"
    /\ tasks = 0
    /\ wpc = "none"
    /\ wake = 0
    /\ wbegan = 0
    /\ wlog = <<>>
    /\ werr = FALSE
    /\ now = 0
    /\ hpc = [h \in Handlers |-> "idle"]
    /\ hmodel = [h \in Handlers |-> ""]
    /\ nops = 0
    /\ last = NoOp
    /\ getCtor = [n \in RegisteredNames |-> 0]
    /\ firstGet = [n \in RegisteredNames |-> 0]
    /\ racers = [n \in RegisteredNames |-> {}]
    /\ initFailed = {}
    /\ inferFailed = {}

\* The constructors of the two classes only assign fields.
Init == InitCommon /\ faults = 0 /\ mode = "all"

\* The same service started with any warmup mode in its environment.
InitMode == InitCommon /\ faults = 0 /\ mode \in WarmupModes

\* The same service on a host where a constructor call may raise.
InitFault == InitCommon /\ faults = MaxFaults /\ mode = "all"

InitReg == InitCommon /\ faults \in {0, MaxFaults} /\ mode = "all"

CtorChoices == IF faults > 0 THEN BOOLEAN ELSE {TRUE}

\* What the environment does to one processing call: everything works and
\* the library returns an image of some mode, or exactly one step fails (a
\* step after a failed one is never reached).
AllFine == [sizeOk |-> TRUE, decodable |-> TRUE, ctorOk |-> TRUE,
            initOk |-> TRUE, inferOk |-> TRUE, libMode |-> "RGBA"]
CallEnvs ==
    {[AllFine EXCEPT !.libMode = m] : m \in ImageModes}
      \cup {[AllFine EXCEPT !.initOk = FALSE], [AllFine EXCEPT !.inferOk = FALSE]}
      \cup (IF faults > 0 THEN {[AllFine EXCEPT !.ctorOk = FALSE]} ELSE {})
RequestEnvs ==
    CallEnvs \cup {[AllFine EXCEPT !.sizeOk = FALSE],
                   [AllFine EXCEPT !.decodable = FALSE],
                   [AllFine EXCEPT !.sizeOk = FALSE, !.decodable = FALSE]}
\* The constructor call initialize_all may see raise: one for a name that has
\* no instance yet (it constructs no other).
CtorFailChoices ==
    {"none"} \cup (IF faults > 0 THEN RegisteredNames \ DOMAIN model_instances
                                 ELSE {})

\* Callers that have a get(name) pending at their next step: the handlers
\* awaiting their upload and the warmup task before its first get_model.
InFlight(name) ==
    {h \in Handlers : hpc[h] = "reading" /\ hmodel[h] = name}
      \cup (IF wpc \in {"created", "sleep"} /\ wlog = <<>> /\ name = "rembg"
            THEN {WarmupTask} ELSE {})

\* The event loop runs one coroutine at a time: while a handler is inside
\* its synchronous get_model / remove_background call, no other coroutine
\* is resumed.
LoopBusy == \E h \in Handlers : hpc[h] = "processing"

SetReg(r) ==
    /\ model_classes' = r.classes
    /\ model_instances' = r.instances
    /\ heap' = r.heap

\* What a get (or the get inside a processing call) by caller adds to the
\* history; r is the result of get or process.
Hist(r, name, caller) ==
    /\ getCtor' = IF name \in RegisteredNames
                  THEN [getCtor EXCEPT ![name] = @ + r.ctor] ELSE getCtor
    /\ firstGet' = IF name \in RegisteredNames /\ r.ret # 0 /\ firstGet[name] = 0
                   THEN [firstGet EXCEPT ![name] = r.ret] ELSE firstGet
    /\ racers' = IF name \in RegisteredNames /\ r.ctor = 1 /\ r.ret # 0
                 THEN [racers EXCEPT ![name] = InFlight(name) \ {caller}]
                 ELSE racers
    /\ faults' = IF r.err = "ctor" THEN faults - 1 ELSE faults

(***************************************************************************)
(* The registry called directly.                                           *)
(***************************************************************************)
GetCall(name) ==
    /\ ~LoopBusy
    /\ nops < MaxCalls
    /\ \E ctorOk \in CtorChoices :
         LET g == get(Reg, name, ctorOk)
         IN  /\ SetReg(g.reg)
             /\ Hist(g, name, DirectCaller)
             /\ last' = [NoOp EXCEPT !.op = "get", !.name = name, !.ret = g.ret,
                           !.err = g.err, !.msg = g.msg, !.ctor = g.ctor]
    /\ nops' = nops + 1
    /\ UNCHANGED <<appvars, mode, initFailed, inferFailed>>

ProcessCall(name) ==
    /\ ~LoopBusy
    /\ nops < MaxCalls
    /\ \E e \in CallEnvs :
         LET p == process(Reg, name, e.ctorOk, e.initOk, e.inferOk, e.libMode)
         IN  /\ SetReg(p.reg)
             /\ getCtor' = IF name \in RegisteredNames
                           THEN [getCtor EXCEPT ![name] = @ + p.ctor] ELSE getCtor
             /\ firstGet' = IF name \in RegisteredNames /\ p.ret # 0
                               /\ firstGet[name] = 0
                            THEN [firstGet EXCEPT ![name] = p.ret] ELSE firstGet
             /\ racers' = racers
             /\ faults' = IF p.err = "ctor" THEN faults - 1 ELSE faults
             /\ initFailed' = IF p.err = "init" THEN initFailed \cup {name}
                              ELSE initFailed
             /\ inferFailed' = IF p.err = "infer" THEN inferFailed \cup {name}
                               ELSE inferFailed
             /\ last' = [NoOp EXCEPT !.op = "process", !.name = name,
                           !.ret = p.ret, !.err = p.err, !.msg = p.msg,
                           !.ctor = p.ctor, !.initRan = p.initRan,
                           !.inferRan = p.inferRan, !.wasLoaded = p.wasLoaded,
                           !.mode = p.mode,
                           !.libMode = IF p.err = "" THEN e.libMode ELSE ""]
    /\ nops' = nops + 1
    /\ UNCHANGED <<appvars, mode>>

\* time.sleep blocks the caller until time t. The clock is read only by the
\* warmup task while it sleeps, so it is kept up to that task's wake-up time
\* and the instants beyond it are not told apart.
SleepUntil(t) ==
    IF wpc = "sleep" /\ now < wake THEN (IF t < wake THEN t ELSE wake) ELSE now

InitializeAllCall ==
    /\ ~LoopBusy
    /\ nops < MaxCalls
    /\ \E initOk \in [RegisteredNames -> BOOLEAN], ctorFail \in CtorFailChoices :
         LET a == initialize_all(Reg, initOk, ctorFail)
             sleeps == Cardinality({i \in 1..Len(a.events) : a.events[i][1] = "sleep"})
         IN  /\ SetReg(a.reg)
             /\ faults' = IF ctorFail # "none" THEN faults - 1 ELSE faults
             /\ initFailed' = initFailed \cup
                    {n \in a.failed : <<"initialize", n>> \in
                                        {a.events[i] : i \in 1..Len(a.events)}}
             /\ now' = SleepUntil(now + INIT_ALL_DELAY * sleeps)
             /\ last' = [NoOp EXCEPT !.op = "initialize_all", !.ctor = a.ctor,
                           !.events = a.events, !.ok = a.ok, !.failed = a.failed,
                           !.count = a.count, !.initOk = initOk,
                           !.ctorFail = ctorFail]
    /\ nops' = nops + 1
    /\ UNCHANGED <<lifespan, tasks, wpc, wake, wbegan, wlog, werr, hpc, hmodel,
                   mode, getCtor, firstGet, racers, inferFailed>>

NextReg ==
    \/ \E name \in ModelArgs : GetCall(name)
    \/ \E name \in ModelArgs : ProcessCall(name)
    \/ InitializeAllCall

SpecReg == InitReg /\ [][NextReg]_vars

\* A register that keeps the instance it constructed to read the name.
RegisterCall_keeps_instance(cls) ==
    /\ ~LoopBusy
    /\ nops < MaxCalls
    /\ \E ctorOk \in CtorChoices :
         /\ model_classes' = IF ctorOk THEN register(model_classes, cls)
                                      ELSE model_classes
         /\ heap' = IF ctorOk THEN Append(heap, NewInstance(cls)) ELSE heap
         /\ model_instances' =
               IF ctorOk
               THEN (ClassName(cls) :> (Len(heap) + 1))
                        @@ Without(model_instances, ClassName(cls))
               ELSE model_instances
         /\ faults' = IF ctorOk THEN faults ELSE faults - 1
         /\ last' = [NoOp EXCEPT !.op = "register", !.name = ClassName(cls),
                       !.cls = cls, !.ctor = 1,
                       !.err = IF ctorOk THEN "" ELSE "ctor"]
    /\ nops' = nops + 1
    /\ UNCHANGED <<histvars, appvars, mode>>

\* _registry.register(model_class) called after import: the constructor
\* runs once to read the name (the temporary instance is dropped), then the
\* class is bound to the name. A raising constructor leaves register before
\* the assignment.
RegisterCall(cls) ==
    /\ ~LoopBusy
    /\ nops < MaxCalls
    /\ \E ctorOk \in CtorChoices :
         /\ model_classes' = IF ctorOk THEN register(model_classes, cls)
                                      ELSE model_classes
         /\ faults' = IF ctorOk THEN faults ELSE faults - 1
         /\ last' = [NoOp EXCEPT !.op = "register", !.name = ClassName(cls),
                       !.cls = cls, !.ctor = 1,
                       !.err = IF ctorOk THEN "" ELSE "ctor"]
    /\ nops' = nops + 1
    /\ UNCHANGED <<model_instances, heap, histvars, appvars, mode>>

\* The registry called directly, register included.
NextRegister ==
    \/ NextReg
    \/ \E cls \in Classes \cup {DuplicateClass} : RegisterCall(cls)

SpecRegister == InitReg /\ [][NextRegister]_vars

(***************************************************************************)
(* The service: app/main.py and app/api.py.                                *)
(***************************************************************************)
\* A warmup that honours the mode found in the environment.
WarmupTargets_by_mode(m) ==
    IF m = "all" THEN <<"rembg", "withoutbg">>
    ELSE IF m = "none" THEN <<>> ELSE <<m>>

\* The models background_model_initialization handles, in its order. The
\* function reads no setting: the two names are literals in its body.
WarmupTargets(m) == <<"rembg", "withoutbg">>

\* A sleep that returns at once.
WakeAfter_no_delay(t, delay) == t

\* asyncio.sleep(delay) started at time t returns no earlier than t + delay.
WakeAfter(t, delay) == t + delay

\* The same call with no try block around it.
warmup_get_uncaught(reg, name, ctorOk) ==
    LET g == get(reg, name, ctorOk)
    IN  [g |-> g, caught |-> FALSE, crashed |-> g.err # ""]

\* One get_model call of the warmup task inside its try block: an exception
\* is caught by "except Exception", logged, and the task returns.
warmup_get(reg, name, ctorOk) ==
    LET g == get(reg, name, ctorOk)
    IN  [g |-> g, caught |-> g.err # "", crashed |-> FALSE]

\* lifespan(): asyncio.create_task(background_model_initialization()) and
\* then yield, with no await in between.
Lifespan ==
    /\ lifespan = "startup"
    /\ tasks' = tasks + 1
    /\ wpc' = "created"
    /\ lifespan' = "serving"
    /\ UNCHANGED <<regvars, histvars, wake, wbegan, wlog, werr, now, hpc, hmodel,
                   nops, faults, mode, last>>

\* The task's first run: up to "await asyncio.sleep(5)".
WarmupBegin ==
    /\ ~LoopBusy
    /\ wpc = "created"
    /\ wpc' = "sleep"
    /\ wbegan' = now
    /\ wake' = WakeAfter(now, SETTLE_DELAY)
    /\ UNCHANGED <<regvars, histvars, lifespan, tasks, wlog, werr, now, hpc,
                   hmodel, nops, faults, mode, last>>

\* A step that goes from get_model straight to the sleep.
WarmupTrail_no_gc(name, more) ==
    <<<<"get", name>>>> \o (IF more THEN <<<<"sleep", name>>>> ELSE <<>>)

\* What the task does for one model when get_model returned: get_model,
\* gc.collect() and, when another model follows, asyncio.sleep(5).
WarmupTrail(name, more) ==
    <<<<"get", name>>, <<"gc", name>>>>
        \o (IF more THEN <<<<"sleep", name>>>> ELSE <<>>)

WarmupGets == {i \in 1..Len(wlog) : wlog[i][1] = "get"}

\* The task between two sleeps: get_model for the next model, gc.collect(),
\* and either the next "await asyncio.sleep(5)" or the end of the function.
WarmupStep ==
    /\ ~LoopBusy
    /\ wpc = "sleep"
    /\ now >= wake
    /\ LET targets == WarmupTargets(mode)
           k == Cardinality(WarmupGets) + 1
       IN  IF k > Len(targets)
           THEN /\ wpc' = "done"
                /\ UNCHANGED <<regvars, histvars, wlog, werr, wake, faults, last>>
           ELSE \E ctorOk \in CtorChoices :
                  LET name == targets[k]
                      w == warmup_get(Reg, name, ctorOk)
                  IN  /\ SetReg(w.g.reg)
                      /\ Hist(w.g, name, WarmupTask)
                      /\ UNCHANGED <<initFailed, inferFailed>>
                      /\ last' = [NoOp EXCEPT !.op = "warmup_get",
                                    !.by = WarmupTask, !.name = name,
                                    !.ret = w.g.ret, !.err = w.g.err,
                                    !.msg = w.g.msg, !.ctor = w.g.ctor]
                      /\ IF w.crashed
                         THEN /\ wpc' = "crashed"
                              /\ wlog' = wlog \o <<<<"get", name>>>>
                              /\ UNCHANGED <<werr, wake>>
                         ELSE IF w.caught
                         THEN /\ wpc' = "done"
                              /\ werr' = TRUE
                              /\ wlog' = wlog \o <<<<"get", name>>>>
                              /\ UNCHANGED wake
                         ELSE IF k < Len(targets)
                         THEN /\ wpc' = "sleep"
                              /\ wake' = WakeAfter(now, INTER_MODEL_DELAY)
                              /\ wlog' = wlog \o WarmupTrail(name, TRUE)
                              /\ UNCHANGED werr
                         ELSE /\ wpc' = "done"
                              /\ wlog' = wlog \o WarmupTrail(name, FALSE)
                              /\ UNCHANGED <<werr, wake>>
    /\ UNCHANGED <<lifespan, tasks, wbegan, now, hpc, hmodel, nops, mode>>

\* Time passes until the sleep of the warmup task is due. The sleeping task
\* is the only reader of the clock, so the instants in between are not told
\* apart.
Tick ==
    /\ wpc = "sleep"
    /\ now < wake
    /\ now' = wake
    /\ UNCHANGED <<regvars, histvars, lifespan, tasks, wpc, wake, wbegan, wlog,
                   werr, hpc, hmodel, nops, faults, mode, last>>

FileKinds == {"ok", "nofilename", "badext"}

\* validate_image_file(file): the filename and the extension.
validate_image_file(file) == IF file = "ok" THEN 0 ELSE 400

InList(names, x) == \E i \in 1..Len(names) : names[i] = x

\* The same with the decode tried before the model is looked at.
route_after_read_decode_first(reg, model, sizeOk, decodable, ctorOk, initOk, inferOk, libMode) ==
    LET none == [reg |-> reg, ret |-> 0, err |-> "", msg |-> <<>>, ctor |-> 0,
                 initRan |-> FALSE, inferRan |-> FALSE, wasLoaded |-> FALSE,
                 mode |-> ""]
    IN  IF ~sizeOk THEN [p |-> none, status |-> 413, stage |-> "size"]
        ELSE IF ~decodable THEN [p |-> none, status |-> 400, stage |-> "decode"]
        ELSE IF ~InList(list_models(reg.classes), model)
        THEN [p |-> none, status |-> 400, stage |-> "model"]
        ELSE LET p == process(reg, model, ctorOk, initOk, inferOk, libMode)
             IN  IF p.err # "" THEN [p |-> p, status |-> 500, stage |-> "process"]
                 ELSE [p |-> p, status |-> 200, stage |-> "done"]

\* The same with a processing try block whose except clause lets the
\* response go out as a success.
route_after_read_swallows(reg, model, sizeOk, decodable, ctorOk, initOk, inferOk, libMode) ==
    LET none == [reg |-> reg, ret |-> 0, err |-> "", msg |-> <<>>, ctor |-> 0,
                 initRan |-> FALSE, inferRan |-> FALSE, wasLoaded |-> FALSE,
                 mode |-> ""]
    IN  IF ~sizeOk THEN [p |-> none, status |-> 413, stage |-> "size"]
        ELSE IF ~InList(list_models(reg.classes), model)
        THEN [p |-> none, status |-> 400, stage |-> "model"]
        ELSE IF ~decodable THEN [p |-> none, status |-> 400, stage |-> "decode"]
        ELSE [p |-> process(reg, model, ctorOk, initOk, inferOk, libMode),
              status |-> 200, stage |-> "done"]

\* The same without the "if model not in available" rejection.
route_after_read_no_model_check(reg, model, sizeOk, decodable, ctorOk, initOk, inferOk, libMode) ==
    LET none == [reg |-> reg, ret |-> 0, err |-> "", msg |-> <<>>, ctor |-> 0,
                 initRan |-> FALSE, inferRan |-> FALSE, wasLoaded |-> FALSE,
                 mode |-> ""]
    IN  IF ~sizeOk THEN [p |-> none, status |-> 413, stage |-> "size"]
        ELSE IF ~decodable THEN [p |-> none, status |-> 400, stage |-> "decode"]
        ELSE LET p == process(reg, model, ctorOk, initOk, inferOk, libMode)
             IN  IF p.err # "" THEN [p |-> p, status |-> 500, stage |-> "process"]
                 ELSE [p |-> p, status |-> 200, stage |-> "done"]

\* remove_background() of api.py after "await file.read()": the size check,
\* the model check, the decode, then get_model and remove_background, whose
\* exceptions become a 500.
route_after_read(reg, model, sizeOk, decodable, ctorOk, initOk, inferOk, libMode) ==
    LET none == [reg |-> reg, ret |-> 0, err |-> "", msg |-> <<>>, ctor |-> 0,
                 initRan |-> FALSE, inferRan |-> FALSE, wasLoaded |-> FALSE,
                 mode |-> ""]
    IN  IF ~sizeOk THEN [p |-> none, status |-> 413, stage |-> "size"]
        ELSE IF ~InList(list_models(reg.classes), model)
        THEN [p |-> none, status |-> 400, stage |-> "model"]
        ELSE IF ~decodable THEN [p |-> none, status |-> 400, stage |-> "decode"]
        ELSE LET p == process(reg, model, ctorOk, initOk, inferOk, libMode)
             IN  IF p.err # "" THEN [p |-> p, status |-> 500, stage |-> "process"]
                 ELSE [p |-> p, status |-> 200, stage |-> "done"]

\* What is wrong with a request: its file name or extension, the size of
\* its upload, its model value, the bytes of its image. Of an upload that is
\* never read (a rejected file name) size and bytes are not known.
Defects(file, model, e) ==
    (IF validate_image_file(file) # 0 THEN {"type"} ELSE {})
      \cup (IF ~e.sizeOk THEN {"size"} ELSE {})
      \cup (IF ~InList(list_models(model_classes), model) THEN {"model"} ELSE {})
      \cup (IF ~e.decodable THEN {"decode"} ELSE {})

\* A request arrives: validate_image_file, then "await file.read()". The
\* handlers are interchangeable coroutines: a new request takes the first
\* idle one.
ReqStart(h) ==
    /\ ~LoopBusy
    /\ lifespan = "serving"
    /\ hpc[h] = "idle"
    /\ \A g \in Handlers : g < h => hpc[g] # "idle"
    /\ nops < MaxRequests
    /\ nops' = nops + 1
    /\ \E model \in ModelArgs, file \in FileKinds :
         IF validate_image_file(file) # 0
         THEN /\ last' = [NoOp EXCEPT !.op = "request", !.by = h, !.name = model,
                            !.status = validate_image_file(file), !.stage = "type",
                            !.defects = Defects(file, model, AllFine)]
              /\ UNCHANGED <<hpc, hmodel>>
         ELSE /\ hpc' = [hpc EXCEPT ![h] = "reading"]
              /\ hmodel' = [hmodel EXCEPT ![h] = model]
              /\ UNCHANGED last
    /\ UNCHANGED <<regvars, histvars, lifespan, tasks, wpc, wake, wbegan, wlog,
                   werr, now, faults, mode>>

\* The response of a handler and what the call observed; e is what the
\* environment did to the request.
Respond(h, r, e) ==
    /\ SetReg(r.p.reg)
    /\ Hist(r.p, hmodel[h], h)
    /\ initFailed' = IF r.p.err = "init" THEN initFailed \cup {hmodel[h]}
                     ELSE initFailed
    /\ inferFailed' = IF r.p.err = "infer" THEN inferFailed \cup {hmodel[h]}
                      ELSE inferFailed
    /\ last' = [NoOp EXCEPT !.op = "request", !.by = h,
                  !.name = hmodel[h], !.ret = r.p.ret, !.err = r.p.err,
                  !.msg = r.p.msg, !.ctor = r.p.ctor,
                  !.initRan = r.p.initRan, !.inferRan = r.p.inferRan,
                  !.wasLoaded = r.p.wasLoaded,
                  !.mode = r.p.mode, !.status = r.status,
                  !.stage = r.stage,
                  !.libMode = IF r.status = 200 THEN e.libMode ELSE "",
                  !.defects = Defects("ok", hmodel[h], e)]
    /\ hpc' = [hpc EXCEPT ![h] = "idle"]
    /\ hmodel' = [hmodel EXCEPT ![h] = ""]

\* The read returns and the loop resumes the handler: the size check, the
\* model check and the decode. A rejected request is answered at once; an
\* accepted one enters the synchronous get_model / remove_background call.
ReqResume(h) ==
    /\ ~LoopBusy
    /\ hpc[h] = "reading"
    /\ \E e \in RequestEnvs :
         LET r == route_after_read(Reg, hmodel[h], e.sizeOk, e.decodable,
                                   e.ctorOk, e.initOk, e.inferOk, e.libMode)
         IN  IF r.stage \in {"size", "model", "decode"}
             THEN Respond(h, r, e)
             ELSE /\ hpc' = [hpc EXCEPT ![h] = "processing"]
                  /\ UNCHANGED <<regvars, histvars, hmodel, faults, last>>
    /\ UNCHANGED <<lifespan, tasks, wpc, wake, wbegan, wlog, werr, now, nops, mode>>

\* The synchronous call returns or raises and the handler runs to its
\* response.
ReqFinish(h) ==
    /\ hpc[h] = "processing"
    /\ \E e \in CallEnvs :
         LET r == route_after_read(Reg, hmodel[h], e.sizeOk, e.decodable,
                                   e.ctorOk, e.initOk, e.inferOk, e.libMode)
         IN  Respond(h, r, e)
    /\ UNCHANGED <<lifespan, tasks, wpc, wake, wbegan, wlog, werr, now, nops, mode>>

\* GET / : health_check() has no await; it returns the registered names.
HealthCheck ==
    /\ ~LoopBusy
    /\ lifespan = "serving"
    /\ nops < MaxRequests
    /\ nops' = nops + 1
    /\ last' = [NoOp EXCEPT !.op = "health", !.status = 200,
                  !.msg = list_models(model_classes)]
    /\ UNCHANGED <<regvars, histvars, appvars, faults, mode>>

Next ==
    \/ Lifespan
    \/ WarmupBegin
    \/ WarmupStep
    \/ Tick
    \/ \E h \in Handlers : ReqStart(h)
    \/ \E h \in Handlers : ReqResume(h)
    \/ \E h \in Handlers : ReqFinish(h)
    \/ HealthCheck

Spec == Init /\ [][Next]_vars

SpecFault == InitFault /\ [][Next]_vars

SpecMode == InitMode /\ [][Next]_vars

\* The service together with a caller of initialize_all_models(); get and
\* remove_background are already exercised by the warmup and the requests.
NextAll == Next \/ InitializeAllCall

SpecAll == Init /\ [][NextAll]_vars

(***************************************************************************)
(* Properties.                                                             *)
(***************************************************************************)
Loaded(name) ==
    /\ name \in DOMAIN model_instances
    /\ heap[model_instances[name]].session = "loaded"

\* The names of the get_model calls the warmup task has made, in order.
WarmupGot == [k \in 1..Cardinality(WarmupGets) |->
                wlog[CHOOSE i \in WarmupGets :
                       Cardinality({j \in WarmupGets : j <= i}) = k][2]]

ServiceGet == last.op \in {"request", "warmup_get"} /\ last.ret # 0

\* C1: when request handlers and the warmup task race to the first get of a
\* name, the get calls invoke the constructor of that name exactly once, and
\* every caller receives the one instance the mapping holds.
ConstructedOncePerName ==
    /\ \A n \in RegisteredNames :
         /\ getCtor[n] <= 1
         /\ firstGet[n] # 0 => getCtor[n] = 1
    /\ ServiceGet =>
         /\ last.name \in DOMAIN model_instances
         /\ last.ret = model_instances[last.name]

\* A caller that was in flight, together with the warmup task, when another
\* caller constructed the instance has now got that same instance.
RaceWitness ==
    /\ last.op = "request"
    /\ last.ret # 0
    /\ last.ctor = 0
    /\ last.by \in racers[last.name]
    /\ WarmupTask \in racers[last.name]
    /\ getCtor[last.name] = 1
    /\ last.ret = model_instances[last.name]

\* C2: every get of a registered name, whatever gets of this and other names
\* came before, returns the identity the first get of that name returned.
InstanceStability ==
    /\ ServiceGet => last.ret = firstGet[last.name]
    /\ \A n \in RegisteredNames :
         firstGet[n] # 0 => (n \in DOMAIN model_instances
                             /\ model_instances[n] = firstGet[n])

\* A repeated get of the name constructed first, after the other name was
\* constructed too.
StabilityWitness ==
    /\ ServiceGet
    /\ last.ctor = 0
    /\ last.ret = 1
    /\ \A n \in RegisteredNames : firstGet[n] # 0

\* C3: get of a name that was never registered raises the unknown-model
\* error listing the registered names in registration order, calls no
\* constructor and changes neither mapping.
UnknownNameRejected ==
    [][\A n \in ModelArgs :
         (GetCall(n) /\ n \notin RegisteredNames) =>
            /\ last'.err = "ValueError"
            /\ last'.ret = 0
            /\ last'.msg = <<"rembg", ", ", "withoutbg">>
            /\ last'.ctor = 0
            /\ UNCHANGED <<model_classes, model_instances, heap>>]_vars

UnknownNameWitness ==
    /\ last.op = "get"
    /\ last.name = "other"
    /\ last.err = "ValueError"
    /\ DOMAIN model_instances # {}

\* C4: after an initialize of a name has failed, in initialize_all or lazily
\* in remove_background, the next get-and-process call for the name runs
\* initialize again unless the instance is loaded, and when that initialize
\* returns the instance is loaded and inference runs.
RetryAfterFailure ==
    (last.op = "process" /\ last.name \in initFailed /\ last.ret # 0) =>
        /\ last.wasLoaded \/ last.initRan
        /\ last.err # "init" =>
             /\ heap[last.ret].session = "loaded"
             /\ last.inferRan

\* A processing call whose initialize succeeded after an earlier one failed.
RetryWitness ==
    /\ last.op = "process"
    /\ last.name \in initFailed
    /\ last.initRan
    /\ last.err = ""
    /\ Loaded(last.name)

InitAllFails(n) == last.ctorFail = n \/ ~last.initOk[n]

\* C5: after initialize_all every backend whose construction and initialize
\* succeeded is in the instance mapping and loaded, every backend that failed
\* is absent from it, and the call has raised nothing.
InitializeAllIsolatesFailure ==
    last.op = "initialize_all" =>
        /\ last.err = ""
        /\ \A n \in RegisteredNames :
             IF InitAllFails(n) THEN n \notin DOMAIN model_instances
                                ELSE Loaded(n)

\* initialize_all with rembg failing and withoutbg succeeding, or the reverse.
OneFailsOneSucceedsWitness ==
    /\ last.op = "initialize_all"
    /\ \E n \in RegisteredNames :
         /\ InitAllFails(n)
         /\ \A m \in RegisteredNames \ {n} : ~InitAllFails(m) /\ Loaded(m)

\* C6: when the warmup task has finished without an error, every registered
\* model is initialized.
WarmupLeavesModelsReady ==
    (wpc = "done" /\ ~werr) => \A n \in RegisteredNames : Loaded(n)

\* C7: a failure in the warmup task is caught and ends the task, the service
\* stays in its serving state, and a later valid request is processed through
\* get and lazy initialization: it fails only when a step of its own fails.
WarmupFailureNotFatal ==
    /\ wpc # "crashed"
    /\ werr => (wpc = "done" /\ lifespan = "serving")
    /\ (werr /\ last.op = "request" /\ last.stage \in {"process", "done"}) =>
         \/ last.err = "ctor"
         \/ /\ last.ret # 0
            /\ last.wasLoaded \/ last.initRan
            /\ last.err = "" => (last.status = 200 /\ Loaded(last.name))

\* After the warmup failed, a model it never reached is constructed and
\* initialized by its first request.
LazyAfterWarmupFailureWitness ==
    /\ werr
    /\ last.op = "request"
    /\ last.name = "withoutbg"
    /\ last.status = 200
    /\ last.ctor = 1
    /\ last.initRan

\* C8: the failure of one model's warmup does not keep the task from warming
\* the next: a finished task has called get for every registered model and
\* has run the reclamation pass after each.
WarmupFailureIsolated ==
    wpc = "done" =>
        /\ WarmupGot = Keys(model_classes)
        /\ \A n \in RegisteredNames : \E i \in 1..Len(wlog) : wlog[i] = <<"gc", n>>

\* The models the configured mode selects.
ModeSelects(m) ==
    IF m = "all" THEN RegisteredNames ELSE IF m = "none" THEN {} ELSE {m}

WarmupDeferred ==
    /\ tasks <= 1
    /\ lifespan = "serving" <=> tasks = 1
    /\ lifespan = "startup" => (wpc = "none" /\ ENABLED Lifespan)
    /\ WarmupGets # {} => now >= wbegan + SETTLE_DELAY
    /\ last.op = "warmup_get" => now >= wbegan + SETTLE_DELAY

\* A request is answered while the warmup task is still in its settling sleep.
ServingDuringSettleWitness ==
    /\ lifespan = "serving"
    /\ wpc = "sleep"
    /\ now < wbegan + SETTLE_DELAY
    /\ WarmupGets = {}
    /\ last.op = "request"
    /\ last.status = 200


(***************************************************************************)
(* C11. While one request's initialization or inference call is in         *)
(* progress, a health check and a request for a different model can still  *)
(* be served: whenever a handler is inside that call, a health check that  *)
(* has arrived can be answered and every handler whose upload has been     *)
(* read for another model can be resumed.                                  *)
(***************************************************************************)
OtherWorkServedDuringCall ==
    \A h \in Handlers :
        hpc[h] = "processing" =>
            /\ nops < MaxRequests => ENABLED HealthCheck
            /\ \A g \in Handlers :
                   hpc[g] = "reading" /\ hmodel[g] # hmodel[h] =>
                       ENABLED ReqResume(g)


(***************************************************************************)
(* C12. Lazy fallback: remove_background on a backend that is not          *)
(* initialized first runs initialize and then the inference; the inference *)
(* runs only on an initialized backend; when the lazy initialize fails no  *)
(* inference is attempted.                                                 *)
(***************************************************************************)
LazyInitBeforeInference ==
    last.op = "process" /\ last.ret # 0 =>
        /\ ~last.wasLoaded => last.initRan
        /\ last.wasLoaded => ~last.initRan
        /\ last.inferRan => heap[last.ret].session = "loaded"
        /\ last.err = "init" => ~last.inferRan /\ heap[last.ret].session = "None"
        /\ last.err # "init" => last.inferRan

\* A call on a constructed, uninitialized backend that initialized it and
\* then ran the inference.
LazyInitWitness ==
    /\ last.op = "process" /\ last.err = ""
    /\ last.ctor = 0 /\ ~last.wasLoaded
    /\ last.initRan /\ last.inferRan


(***************************************************************************)
(* C13. At the HTTP boundary the model selector is accepted exactly when   *)
(* it is in the list of registered names: a request whose file passed the  *)
(* type and size checks and whose model is not registered is answered 400  *)
(* at the model check and never calls the registry's get; a request whose  *)
(* model is registered is never rejected at the model check, and once its  *)
(* image decodes it reaches get, which does not raise the unknown-name     *)
(* error.                                                                  *)
(***************************************************************************)
ModelSelectorGate ==
    last.op = "request" =>
        /\ ~InList(list_models(model_classes), last.name) =>
              /\ last.stage \in {"type", "size", "model"}
              /\ last.ret = 0 /\ last.ctor = 0 /\ last.err = ""
              /\ last.stage = "model" => last.status = 400
        /\ InList(list_models(model_classes), last.name) =>
              /\ last.stage \in {"type", "size", "decode", "process", "done"}
              /\ last.stage \in {"process", "done"} =>
                    /\ last.err # "ValueError"
                    /\ last.ret # 0 \/ last.err = "ctor"
                    /\ last.ret # 0 => last.name \in DOMAIN model_instances

\* A request with a valid file and an unregistered model, answered 400 with
\* the registry untouched.
UnregisteredModelWitness ==
    /\ last.op = "request" /\ last.name = "other"
    /\ last.stage = "model" /\ last.status = 400
    /\ model_instances = <<>>


(***************************************************************************)
(* C14. The list of registered names is the same for the whole life of the *)
(* process: after any sequence of get calls, initialize_all calls, warmup  *)
(* steps and HTTP requests, list_models returns the names in the order in  *)
(* which they were registered, rembg and then withoutbg, and that is the   *)
(* list a health check answers with.                                       *)
(***************************************************************************)
RegisteredListStable ==
    /\ list_models(model_classes) = <<"rembg", "withoutbg">>
    /\ last.op = "health" => last.msg = <<"rembg", "withoutbg">>

\* The list after the warmup has run, a request has been processed and an
\* initialize_all call has evicted a model.
ListAfterTrafficWitness ==
    /\ wpc = "done"
    /\ \E n \in RegisteredNames : getCtor[n] > 0
    /\ last.op = "initialize_all" /\ last.failed # {}
    /\ list_models(model_classes) = <<"rembg", "withoutbg">>


(***************************************************************************)
(* C15. There is at most one live instance per name: the mapping holds for *)
(* each name one object of that name's class and no object under two       *)
(* names. The entry of a name changes only by eviction, in an              *)
(* initialize_all call in which the initialization of that very instance   *)
(* failed; an entry that is added is a newly constructed object. So an     *)
(* instance whose initialization has not failed is never removed or        *)
(* replaced.                                                               *)
(***************************************************************************)
InstanceKeptUnlessInitFailed ==
    /\ [](\A n \in DOMAIN model_instances :
            /\ model_instances[n] \in 1..Len(heap)
            /\ ClassName(heap[model_instances[n]].cls) = n
            /\ \A m \in DOMAIN model_instances :
                   model_instances[m] = model_instances[n] => m = n)
    /\ [][/\ \A n \in DOMAIN model_instances :
                (\/ n \notin DOMAIN model_instances'
                 \/ model_instances'[n] # model_instances[n])
                   => /\ n \notin DOMAIN model_instances'
                      /\ last'.op = "initialize_all"
                      /\ ~last'.initOk[n]
                      /\ \E i \in 1..Len(last'.events) :
                            last'.events[i] = <<"initialize", n>>
           /\ \A k \in DOMAIN model_instances' \ DOMAIN model_instances :
                model_instances'[k] > Len(heap)]_vars

\* A name whose instance was evicted by a failed initialization now has a
\* different instance, while the other name, whose initialization succeeded
\* in that call, still has its initialized instance.
ReplacedAfterEvictionWitness ==
    \E n, m \in DOMAIN model_instances :
        /\ n # m
        /\ n \in initFailed /\ firstGet[n] # 0
        /\ model_instances[n] # firstGet[n]
        /\ m \notin initFailed /\ heap[model_instances[m]].session = "loaded"


(***************************************************************************)
(* C16. Whenever the initialization of a backend fails, also when it is    *)
(* the lazy initialization a request triggered, the registry evicts the    *)
(* instance: after a request that failed in its lazy initialize the name   *)
(* has no instance.                                                        *)
(***************************************************************************)
LazyInitFailureEvicts ==
    last.op = "request" /\ last.err = "init" =>
        last.name \notin DOMAIN model_instances

\* C16 as the code has it: initialize_all evicts the instances whose
\* initialization failed in it, so that the next get constructs a fresh one;
\* a request whose lazy initialize failed leaves its instance in the
\* mapping, uninitialized, and the next request for that name gets the same
\* instance, constructs nothing and runs initialize on it again.
InitFailureEvictsOnlyInInitializeAll ==
    /\ [](/\ last.op = "initialize_all" =>
               \A n \in last.failed : n \notin DOMAIN model_instances
          /\ last.op = "request" /\ last.err = "init" =>
               /\ last.name \in DOMAIN model_instances
               /\ model_instances[last.name] = last.ret
               /\ heap[last.ret].session = "None")
    /\ [][(/\ last.op = "request" /\ last.err = "init"
           /\ last'.op = "request" /\ last'.name = last.name
           /\ last'.stage \in {"process", "done"})
             => /\ last'.ret = last.ret
                /\ last'.ctor = 0
                /\ last'.initRan]_<<last>>

\* A request that ran initialize again, with success, on the instance a
\* failed lazy initialization had left in the mapping.
LazyRetryOnSameInstanceWitness ==
    /\ last.op = "request" /\ last.status = 200
    /\ last.name \in initFailed
    /\ last.ctor = 0 /\ last.initRan
    /\ getCtor[last.name] = 1
    /\ nops = 2 /\ wlog = <<>>


(***************************************************************************)
(* C17. A processing failure does not poison the backend: after a request  *)
(* whose inference raised, the instance is still the one in the mapping    *)
(* and still initialized, and a later request for that name gets that      *)
(* instance, constructs nothing, does not initialize again and runs the    *)
(* inference.                                                              *)
(***************************************************************************)
InferenceFailureKeepsBackend ==
    /\ [](last.op = "request" /\ last.err = "infer" =>
            /\ last.status = 500
            /\ last.name \in DOMAIN model_instances
            /\ model_instances[last.name] = last.ret
            /\ heap[last.ret].session = "loaded")
    /\ [][(/\ \E h \in Handlers : hpc[h] = "processing" /\ hpc'[h] = "idle"
           /\ last'.op = "request" /\ last'.stage \in {"process", "done"}
           /\ last'.name \in inferFailed)
             => /\ last'.ret # 0
                /\ last'.ret = model_instances[last'.name]
                /\ last'.ctor = 0
                /\ last'.wasLoaded /\ ~last'.initRan
                /\ last'.inferRan]_vars

\* A request served with no initialization by a backend whose inference had
\* failed before.
ServedAfterInferenceFailureWitness ==
    /\ last.op = "request" /\ last.status = 200
    /\ last.name \in inferFailed
    /\ last.wasLoaded /\ ~last.initRan /\ last.inferRan


(***************************************************************************)
(* C18. initialize_all never fails as a whole and reports the number of    *)
(* successes: whatever constructors and initializations fail in a call, the *)
(* call ends having settled every registered model as either succeeded or  *)
(* failed, and the count it logs is the number of registered models whose  *)
(* initialization succeeded in this call.                                  *)
(***************************************************************************)
InitializeAllCountsSuccesses ==
    last.op = "initialize_all" =>
        /\ last.err = ""
        /\ last.ok \cup last.failed = RegisteredNames
        /\ last.ok \cap last.failed = {}
        /\ last.ok = {n \in RegisteredNames : ~InitAllFails(n)}
        /\ last.count = Cardinality({n \in RegisteredNames : ~InitAllFails(n)})

\* A call in which one model's constructor and the other model's
\* initialization failed, reporting zero.
AllFailCountZeroWitness ==
    /\ last.op = "initialize_all"
    /\ last.ctorFail # "none"
    /\ last.failed = RegisteredNames
    /\ last.count = 0


(***************************************************************************)
(* C19. Every successful remove_background returns an RGBA image, on       *)
(* either backend: whatever mode the library's result has, the image a     *)
(* request is answered with is RGBA, a result of another mode having been  *)
(* converted.                                                              *)
(***************************************************************************)
SuccessfulOutputIsRGBA ==
    last.op = "request" /\ last.status = 200 =>
        /\ last.err = "" /\ last.inferRan
        /\ last.libMode \in ImageModes
        /\ last.mode = "RGBA"

\* A request on withoutbg answered with an RGBA image although the library
\* returned a greyscale one, rembg having served a request before.
ConvertedOutputWitness ==
    /\ last.op = "request" /\ last.status = 200
    /\ last.name = "withoutbg"
    /\ last.libMode = "L" /\ last.mode = "RGBA"
    /\ "rembg" \in DOMAIN model_instances
    /\ heap[model_instances["rembg"]].session = "loaded"


(***************************************************************************)
(* C20. initialize_all attempts every registered model exactly once per    *)
(* call, one at a time and in registration order: in the sequence of its   *)
(* steps every registered name has one attempt (at most one construction   *)
(* and at most one initialize), all the steps of a model come before all   *)
(* the steps of the next registered one, and a model that fails is         *)
(* followed by the attempt of the next.                                    *)
(***************************************************************************)
InitializeAllInOrder ==
    last.op = "initialize_all" =>
        LET ev == last.events
            at(n) == {i \in 1..Len(ev) : ev[i][2] = n}
            kind(n, k) == {i \in at(n) : ev[i][1] = k}
            names == list_models(model_classes)
        IN  /\ \A i \in 1..Len(ev) : InList(names, ev[i][2])
            /\ \A k \in 1..Len(names) :
                  /\ kind(names[k], "construct") \cup kind(names[k], "initialize") # {}
                  /\ Cardinality(kind(names[k], "construct")) <= 1
                  /\ Cardinality(kind(names[k], "initialize")) <= 1
                  /\ \A j \in 1..Len(names) :
                        k < j => \A a \in at(names[k]), b \in at(names[j]) : a < b

\* A call in which the initialization of the first model failed and the
\* second model was initialized after it.
SecondAttemptedAfterFailureWitness ==
    /\ last.op = "initialize_all"
    /\ last.failed = {"rembg"} /\ last.ok = {"withoutbg"}
    /\ \E i, j \in 1..Len(last.events) :
          /\ i < j
          /\ last.events[i] = <<"initialize", "rembg">>
          /\ last.events[j] = <<"initialize", "withoutbg">>


(***************************************************************************)
(* C21. The warmup task runs sequentially and never overlaps its own       *)
(* steps: there is one task, it handles each model at most once, and when  *)
(* it has reached the step for withoutbg, the step for rembg has finished, *)
(* the garbage collection has run, the task has slept, and both the        *)
(* settling delay and the inter-model delay have elapsed since it began.   *)
(***************************************************************************)
WarmupSequential ==
    /\ tasks <= 1
    /\ \A i, j \in WarmupGets : wlog[i] = wlog[j] => i = j
    /\ \A i \in 1..Len(wlog) :
          wlog[i] = <<"get", "withoutbg">> =>
              /\ i = 4
              /\ wlog[1] = <<"get", "rembg">>
              /\ wlog[2] = <<"gc", "rembg">>
              /\ wlog[3] = <<"sleep", "rembg">>
              /\ "rembg" \in DOMAIN model_instances
              /\ now >= wbegan + SETTLE_DELAY + INTER_MODEL_DELAY
    /\ wpc = "sleep" /\ Len(wlog) > 0 =>
          /\ wlog = <<<<"get", "rembg">>, <<"gc", "rembg">>, <<"sleep", "rembg">>>>
          /\ wake >= wbegan + SETTLE_DELAY + INTER_MODEL_DELAY

\* The task at its end, having handled rembg and then withoutbg.
WarmupBothInTurnWitness ==
    /\ wpc = "done" /\ ~werr
    /\ wlog = WarmupTrail("rembg", TRUE) \o WarmupTrail("withoutbg", FALSE)
    /\ now = wbegan + SETTLE_DELAY + INTER_MODEL_DELAY


(***************************************************************************)
(* C22. initialize is never invoked concurrently or redundantly on one     *)
(* backend instance: at most one caller is inside a model call at a time,  *)
(* a processing call does not initialize an instance that is already       *)
(* initialized, and neither does an initialize_all call.                   *)
(***************************************************************************)
InitializeNeverRedundant ==
    /\ [](/\ Cardinality({h \in Handlers : hpc[h] = "processing"}) <= 1
          /\ last.op \in {"request", "process"} /\ last.wasLoaded => ~last.initRan)
    /\ [][last'.op = "initialize_all" /\ nops' = nops + 1 =>
             \A n \in DOMAIN model_instances :
                 heap[model_instances[n]].session = "loaded" =>
                     \A i \in 1..Len(last'.events) :
                         last'.events[i] # <<"initialize", n>>]_vars


(***************************************************************************)
(* C23. A failure of the registry's get, of the lazy initialization or of  *)
(* the inference while a request is handled becomes a 500 response for     *)
(* that request only: a request is answered 500 exactly when one of the    *)
(* three raised, the service stays up, and after such a response the       *)
(* server still takes or resumes requests.                                 *)
(***************************************************************************)
ProcessingFailureIs500 ==
    /\ lifespan \in {"startup", "serving"}
    /\ last.op = "request" =>
          /\ last.err # "" <=> last.status = 500
          /\ last.status = 500 =>
                /\ last.stage = "process"
                /\ last.err \in {"ctor", "init", "infer"}
                /\ lifespan = "serving"
                /\ ~LoopBusy /\ nops < MaxRequests =>
                      \E h \in Handlers : ENABLED ReqStart(h) \/ ENABLED ReqResume(h)
                /\ \A h \in Handlers : hpc[h] = "processing" => ENABLED ReqFinish(h)

\* A request answered 200 after another request had been answered 500
\* because the constructor raised in get.
ServedAfterGetFailureWitness ==
    /\ last.op = "request" /\ last.status = 200
    /\ last.ctor = 1
    /\ faults = 0 /\ wlog = <<>>
    /\ nops = 2


(***************************************************************************)
(* C24. register with a name that is already registered overwrites the     *)
(* constructor binding silently: the call raises nothing, the list of      *)
(* names keeps its length and order, the name is bound to the class just   *)
(* registered, no instance is touched, and a get that constructs the       *)
(* instance afterwards constructs it with the class bound at that time.    *)
(***************************************************************************)
DuplicateRegisterOverwrites ==
    /\ [](last.op \in {"get", "process"} /\ last.ctor = 1 /\ last.ret # 0 =>
            heap[last.ret].cls = ClassOf(model_classes, last.name))
    /\ [](last.op = "register" /\ last.err = "" =>
            ClassOf(model_classes, last.name) = last.cls)
    /\ [][last'.op = "register" /\ nops' = nops + 1 =>
             /\ last'.err # "" => last'.err = "ctor" /\ faults' = faults - 1
                                  /\ model_classes' = model_classes
             /\ list_models(model_classes') = list_models(model_classes)
             /\ model_instances' = model_instances /\ heap' = heap]_vars

\* A get that constructed rembg with the class a duplicate register had
\* bound to the name.
ConstructedWithNewClassWitness ==
    /\ last.op = "get" /\ last.name = "rembg"
    /\ last.ctor = 1 /\ last.ret # 0
    /\ heap[last.ret].cls = DuplicateClass
    /\ list_models(model_classes) = <<"rembg", "withoutbg">>


(***************************************************************************)
(* C25. A request rejected in validation is rejected before the registry   *)
(* is touched, and the checks run in the order file type, file size,       *)
(* model, decode: a request with something wrong is answered at the first  *)
(* of these checks that it fails (413 for the size, 400 for the others),   *)
(* it has called neither get nor a backend, and the step that answers it   *)
(* leaves the classes, the instance mapping and every backend as they      *)
(* were.                                                                   *)
(***************************************************************************)
ValidationBeforeRegistry ==
    /\ [](last.op = "request" =>
            IF last.defects = {}
            THEN last.stage \in {"process", "done"}
            ELSE /\ last.stage = (IF "type" \in last.defects THEN "type"
                                  ELSE IF "size" \in last.defects THEN "size"
                                  ELSE IF "model" \in last.defects THEN "model"
                                  ELSE "decode")
                 /\ last.status = (IF last.stage = "size" THEN 413 ELSE 400)
                 /\ last.ret = 0 /\ last.ctor = 0 /\ last.err = ""
                 /\ ~last.initRan /\ ~last.inferRan)
    /\ [][last'.op = "request"
            /\ last'.stage \in {"type", "size", "model", "decode"}
              => /\ model_classes' = model_classes
                 /\ model_instances' = model_instances
                 /\ heap' = heap
                 /\ getCtor' = getCtor]_vars

\* A request with an unregistered model and an undecodable image, rejected
\* at the model check while another model's instance is in the mapping.
RejectedAtFirstFailingCheckWitness ==
    /\ last.op = "request"
    /\ last.defects = {"model", "decode"}
    /\ last.stage = "model" /\ last.status = 400
    /\ model_instances # <<>>


(***************************************************************************)
(* C26. In every reachable state the names in the instance mapping are     *)
(* registered names, and registration adds nothing to the mapping: it is   *)
(* empty after the registrations at import, and only a get, a processing   *)
(* call or initialize_all changes it; a register call leaves it as it was, *)
(* although it runs the constructor once.                                  *)
(***************************************************************************)
InstancesWithinRegistered ==
    /\ [](/\ \A n \in DOMAIN model_instances :
                InList(list_models(model_classes), n)
          /\ nops = 0 => model_instances = <<>> /\ heap = <<>>)
    /\ [][/\ (model_instances' # model_instances =>
                 /\ nops' = nops + 1
                 /\ last'.op \in {"get", "process", "initialize_all"})
          /\ (last'.op = "register" /\ nops' = nops + 1 =>
                 /\ last'.ctor = 1
                 /\ model_instances' = model_instances)]_vars

\* A register call made after an instance had been stored has left the
\* mapping with that instance only.
RegisterLeavesMappingWitness ==
    /\ last.op = "register" /\ last.err = ""
    /\ DOMAIN model_instances = {"withoutbg"}
    /\ nops = 2

=============================================================================
